---- MODULE Spec2Model ----
(***************************************************************************)
(* restroom (main.go): a command-line tool that extends a per-user cache   *)
(* of tweets from the paginated user-timeline API, persists the cache in   *)
(* restroom.json and prints hour / weekday / place histograms.             *)
(*                                                                         *)
(* A process is followed from flag parsing through load, the fetchMore     *)
(* loop (one step per iteration: request, answer, merge), the report and   *)
(* the deferred save, to its exit.                                         *)
(*   Spec          one process, started on a cache file that is absent,    *)
(*                 damaged or left by earlier runs, against an API that    *)
(*                 may answer anything;                                    *)
(*   SpecFaithful  successive processes sharing the cache file, against a  *)
(*                 remote timeline that does not change.                   *)
(***************************************************************************)
EXTENDS Integers, Sequences, FiniteSets, TLC

\* ----------------------------------------------------------------- bounds
\* Largest tweet id the adversarial API hands out.
MaxId == 2
\* Largest number of tweets in one page (the code asks for count=200).
PageSize == 2
\* Number of process invocations followed in one behaviour.
MaxRuns == 2
\* Length of the shorter of the two remote timelines of the faithful API.
ShortLen == 3

\* ------------------------------------------------------ program constants
\* for i := 0; i < 10; i++
MaxRequestsMut == 10 + 1

MaxRequests == 10

UserNames == {"a", "b"}

\* ------------------------------------------------------------ remote data
\* anaconda.Tweet as far as the program reads it: Id, CreatedAt (the raw
\* RubyDate text, here its parsed content or the mark that it is garbage)
\* and Place.Name.
RawTime(d, h) == [valid |-> TRUE, day |-> d, hour |-> h]
Garbage == [valid |-> FALSE, day |-> 0, hour |-> 0]

PlaceOf(id) == IF id % 3 = 0 THEN "" ELSE IF id % 3 = 1 THEN "NYC" ELSE "Oslo"

GoodTweet(id) ==
    [Id |-> id, CreatedAt |-> RawTime(id % 9, (id * 10) % 24),
     Place |-> [Name |-> PlaceOf(id)]]

BadTweet(id) == [GoodTweet(id) EXCEPT !.CreatedAt = Garbage]

Ids == 1..MaxId

\* The tweets the unconstrained API builds its pages from: every id with a
\* well-formed created_at, and the oldest id also with a malformed one.
ApiTweets == {GoodTweet(id) : id \in Ids} \cup {BadTweet(1)}

RECURSIVE SeqsUpTo(_, _)
SeqsUpTo(S, n) ==
    IF n = 0 THEN {<<>>}
    ELSE LET shorter == SeqsUpTo(S, n - 1)
         IN  shorter \cup {Append(s, x) : s \in {t \in shorter : Len(t) = n - 1}, x \in S}

\* What api.GetUserTimeline(v) can return: (timeline, err).
ApiError == [err |-> TRUE, timeline |-> <<>>]
NoResponse == [err |-> FALSE, timeline |-> <<>>]
Pages == SeqsUpTo(ApiTweets, PageSize)
Responses == {ApiError} \cup {[err |-> FALSE, timeline |-> p] : p \in Pages}

\* tweet.CreatedAtTime(): time.Parse(time.RubyDate, tweet.CreatedAt).
CreatedAtTimeMut(tweet) ==
    [ok |-> TRUE, t |-> [day |-> tweet.CreatedAt.day, hour |-> tweet.CreatedAt.hour]]

CreatedAtTime(tweet) ==
    IF tweet.CreatedAt.valid
    THEN [ok |-> TRUE, t |-> [day |-> tweet.CreatedAt.day, hour |-> tweet.CreatedAt.hour]]
    ELSE [ok |-> FALSE, t |-> [day |-> 0, hour |-> 0]]

\* ------------------------------------------------------------------ cache
\* type cache struct { Users map[string][]Tweet }: a function whose domain
\* is the set of keys present in the map.
EmptyCache == [Users |-> <<>>]

\* c.Users[user]: the zero value (nil slice) for a key that is absent.
Hist(cache, user) ==
    IF user \in DOMAIN cache.Users THEN cache.Users[user] ELSE <<>>

\* c.Users[user] = h
SetHistMut(cache, user, h) == [Users |-> [u \in {user} |-> h]]

SetHist(cache, user, h) ==
    [Users |-> [u \in (DOMAIN cache.Users) \cup {user} |->
                    IF u = user THEN h ELSE cache.Users[u]]]

\* Tweet.CreatedAt as encoding/json writes it (RFC 3339 text) and reads it.
FormatTimeMut(t) == <<t.day, "T", 0, "Z">>

FormatTime(t) == <<t.day, "T", t.hour, "Z">>
ParseRFC3339(s) == [day |-> s[1], hour |-> s[3]]

\* json.Marshal(c)
Marshal(cache) ==
    [Users |-> [u \in DOMAIN cache.Users |->
        [k \in 1..Len(cache.Users[u]) |->
            [CreatedAt |-> FormatTime(cache.Users[u][k].CreatedAt),
             Id |-> cache.Users[u][k].Id,
             Place |-> cache.Users[u][k].Place]]]]

\* json.Decoder.Decode into a cache holding an empty map.
UnmarshalMut(doc) ==
    [Users |-> [u \in DOMAIN doc.Users |->
        [k \in 1..Len(doc.Users[u]) |->
            [CreatedAt |-> ParseRFC3339(doc.Users[u][k].CreatedAt),
             Id |-> 0,
             Place |-> doc.Users[u][k].Place]]]]

Unmarshal(doc) ==
    [Users |-> [u \in DOMAIN doc.Users |->
        [k \in 1..Len(doc.Users[u]) |->
            [CreatedAt |-> ParseRFC3339(doc.Users[u][k].CreatedAt),
             Id |-> doc.Users[u][k].Id,
             Place |-> doc.Users[u][k].Place]]]]

\* Decode of a document whose syntax is valid but whose Id members are JSON
\* strings: each mismatch is recorded as an UnmarshalTypeError, the field
\* keeps its zero value and decoding goes on with the rest of the document.
DecodeMistyped(doc) ==
    [Users |-> [u \in DOMAIN doc.Users |->
        [k \in 1..Len(doc.Users[u]) |->
            [CreatedAt |-> ParseRFC3339(doc.Users[u][k].CreatedAt),
             Id |-> 0,
             Place |-> doc.Users[u][k].Place]]]]

\* restroom.json: absent, not JSON (a truncated write), the document {}
\* with no Users member, a document json.Marshal wrote, or such a document
\* with every Id written as a string ("Id":"2"; doc holds the number spelled).
FileMissing == [kind |-> "missing", doc |-> [Users |-> <<>>]]
FileCorrupt == [kind |-> "corrupt", doc |-> [Users |-> <<>>]]
FileNoUsers == [kind |-> "nousers", doc |-> [Users |-> <<>>]]
FileJson(doc) == [kind |-> "json", doc |-> doc]
FileMistyped ==
    [kind |-> "mistyped",
     doc |-> [Users |-> [u \in {"a"} |->
                <<[CreatedAt |-> FormatTime([day |-> 1, hour |-> 3]), Id |-> 2, Place |-> "NYC"]>>]]]

\* load(): os.Open fails -> the empty cache; Decode's error is dropped: a
\* syntax error leaves c untouched, a type error leaves what was decoded;
\* a nil Users is replaced by an empty map.
Load(f) ==
    IF f.kind = "json" THEN Unmarshal(f.doc)
    ELSE IF f.kind = "mistyped" THEN DecodeMistyped(f.doc)
    ELSE EmptyCache

\* ioutil.WriteFile("restroom.json", b, 0600), whose error save() drops:
\* the write succeeds, the open fails (file untouched), or the file is
\* truncated and the write stops short.
WriteOutcomes == {"ok", "openfail", "short"}

WriteFile(f, doc, w) ==
    IF w = "ok" THEN FileJson(doc)
    ELSE IF w = "openfail" THEN f
    ELSE FileCorrupt

\* -------------------------------------------------------------- fetchMore
\* strconv.FormatInt(n, 10): the decimal digits, most significant first,
\* after a "-" for a negative number.
DigitChars == <<"0", "1", "2", "3", "4", "5", "6", "7", "8", "9">>

RECURSIVE Digits(_)
Digits(n) ==
    IF n < 10 THEN <<DigitChars[n + 1]>>
    ELSE Append(Digits(n \div 10), DigitChars[(n % 10) + 1])

FormatInt(n) == IF n < 0 THEN <<"-">> \o Digits(0 - n) ELSE Digits(n)

\* c.Users[user][len(c.Users[user])-1].Id-1
CursorMut(h) == h[Len(h)].Id

Cursor(h) == h[Len(h)].Id - 1

\* url.Values the loop sends: max_id is the only parameter that changes, so
\* v is its value list ([]string), empty while the key is absent.
BaseValues == [max_id |-> <<>>]

\* if len(c.Users[user]) != 0 { v["max_id"] = []string{m} }
WithMaxId(values, h) ==
    IF Len(h) # 0 THEN [values EXCEPT !.max_id = <<FormatInt(Cursor(h))>>] ELSE values

\* if err != nil && first { return err }
ReturnsErrorMut(err, isFirst) == err

ReturnsError(err, isFirst) == err /\ isFirst

\* if len(timeline) == 0 || err != nil { break }
BreaksMut(timeline, err) == err

Breaks(timeline, err) == Len(timeline) = 0 \/ err

\* if _, ok := ids[tweet.Id]; !ok
UnseenMut(id, seen) == TRUE

Unseen(id, seen) == id \notin seen

\* Tweet{t, tweet.Id, tweet.Place.Name}
NewTweet(t, tweet) == [CreatedAt |-> t, Id |-> tweet.Id, Place |-> tweet.Place.Name]

\* for _, tweet := range timeline { ... }: the history and the seen set
\* after the page, or as log.Fatalf left them when a timestamp did not parse.
RECURSIVE MergePageMut(_, _, _)
MergePageMut(h, seen, page) ==
    IF page = <<>> THEN [hist |-> h, ids |-> seen, fatal |-> FALSE]
    ELSE LET tweet == Head(page)
         IN  IF Unseen(tweet.Id, seen)
             THEN LET parsed == CreatedAtTime(tweet)
                      seen2 == seen \cup {tweet.Id}
                  IN  IF ~parsed.ok
                      THEN [hist |-> h, ids |-> seen2, fatal |-> TRUE]
                      ELSE MergePageMut(<<NewTweet(parsed.t, tweet)>> \o h, seen2, Tail(page))
             ELSE MergePageMut(h, seen, Tail(page))

RECURSIVE MergePage(_, _, _)
MergePage(h, seen, page) ==
    IF page = <<>> THEN [hist |-> h, ids |-> seen, fatal |-> FALSE]
    ELSE LET tweet == Head(page)
         IN  IF Unseen(tweet.Id, seen)
             THEN LET parsed == CreatedAtTime(tweet)
                      seen2 == seen \cup {tweet.Id}
                  IN  IF ~parsed.ok
                      THEN [hist |-> h, ids |-> seen2, fatal |-> TRUE]
                      ELSE MergePage(Append(h, NewTweet(parsed.t, tweet)), seen2, Tail(page))
             ELSE MergePage(h, seen, Tail(page))

\* ------------------------------------------------------------- aggregator
\* t.CreatedAt.Weekday(): day 0 is a Thursday (1970-01-01), Sunday is 0.
Weekday(t) == (t.day + 4) % 7
Hour(t) == t.hour

\* utf8.RuneCountInString and the order of sort.Strings on the place names
\* the remote data uses.
RuneCount(p) == IF p = "NYC" THEN 3 ELSE IF p = "Oslo" THEN 4 ELSE 0
StringRank(p) == IF p = "" THEN 0 ELSE IF p = "NYC" THEN 1 ELSE 2

\* hours[x]++, weekdays[x]++, placesMap[x]++
BumpMut(f, k) == [f EXCEPT ![k] = 1]

Bump(f, k) == [f EXCEPT ![k] = @ + 1]

\* for _, t := range c.Users[*user] { ... }
RECURSIVE Aggregate(_, _)
Aggregate(h, acc) ==
    IF h = <<>> THEN acc
    ELSE LET t == Head(h)
             counted == [acc EXCEPT !.hours = Bump(@, Hour(t.CreatedAt)),
                                    !.weekdays = Bump(@, Weekday(t.CreatedAt))]
             placed ==
                 IF t.Place # ""
                 THEN LET known == t.Place \in DOMAIN counted.placesMap
                          pm == IF known THEN counted.placesMap
                                ELSE [p \in (DOMAIN counted.placesMap) \cup {t.Place} |->
                                        IF p = t.Place THEN 0 ELSE counted.placesMap[p]]
                      IN  [counted EXCEPT
                              !.placesMap = Bump(pm, t.Place),
                              !.placesLen = IF ~known /\ RuneCount(t.Place) > @
                                            THEN RuneCount(t.Place) ELSE @,
                              !.places = IF known THEN @ ELSE Append(@, t.Place)]
                 ELSE counted
         IN  Aggregate(Tail(h), placed)

\* sort.Strings(places)
RECURSIVE SortStrings(_)
SortStrings(s) ==
    IF s = <<>> THEN <<>>
    ELSE LET k == CHOOSE i \in 1..Len(s) : \A j \in 1..Len(s) : StringRank(s[i]) <= StringRank(s[j])
         IN  <<s[k]>> \o SortStrings(SubSeq(s, 1, k - 1) \o SubSeq(s, k + 1, Len(s)))

NoCounts ==
    [hours |-> [x \in 0..23 |-> 0], weekdays |-> [x \in 0..6 |-> 0],
     placesMap |-> <<>>, places |-> <<>>, placesLen |-> 0]

\* What mainImpl prints on stdout.
Report(h) ==
    LET a == Aggregate(h, NoCounts)
    IN  [processed |-> Len(h), hours |-> a.hours, weekdays |-> a.weekdays,
         places |-> SortStrings(a.places), placesMap |-> a.placesMap,
         placesLen |-> a.placesLen]

\* ------------------------------------------------------ the faithful API
\* strconv.FormatInt read back, as the remote service reads max_id.
RECURSIVE DigitsValue(_)
DigitsValue(d) ==
    IF Len(d) = 0 THEN 0
    ELSE 10 * DigitsValue(SubSeq(d, 1, Len(d) - 1))
         + (CHOOSE n \in 0..9 : DigitChars[n + 1] = d[Len(d)])

ParseInt(s) == IF s[1] = "-" THEN 0 - DigitsValue(Tail(s)) ELSE DigitsValue(s)

\* A remote timeline that does not change: user "a" has ShortLen tweets,
\* every other user more than MaxRequests pages of them, newest first.
LongLen == MaxRequests * PageSize + 1
TimelineLen(user) == IF user = "a" THEN ShortLen ELSE LongLen
Timeline(user) == [k \in 1..TimelineLen(user) |-> GoodTweet(TimelineLen(user) + 1 - k)]

RECURSIVE Older(_, _)
Older(t, maxId) ==
    IF t = <<>> THEN <<>>
    ELSE IF Head(t).Id <= maxId THEN t
    ELSE Older(Tail(t), maxId)

\* statuses/user_timeline: the newest PageSize tweets with id <= max_id.
Serve(user, values) ==
    LET t == IF values.max_id = <<>> THEN Timeline(user)
             ELSE Older(Timeline(user), ParseInt(values.max_id[1]))
    IN  SubSeq(t, 1, IF Len(t) < PageSize THEN Len(t) ELSE PageSize)

\* ---------------------------------------------------------------- state
VARIABLES
    file,        \* restroom.json
    fileAtStart, \* restroom.json when the running process started
    runs,        \* process invocations started so far
    prev,        \* how the previous process ended
    pc,          \* "idle", "loop", "finish", "exited"
    flag,        \* the parsed command line of the running process
    c,           \* the in-memory cache
    loaded,      \* the cache as load() returned it
    loads,       \* times the process ran load()
    saves,       \* times the process ran c.save()
    written,     \* outcome of the WriteFile of the process ("none" before it)
    api,         \* the anaconda client: "none", "open", "closed"
    v,           \* url.Values of fetchMore
    first,       \* fetchMore's first
    ids,         \* fetchMore's ids
    i,           \* fetchMore's loop counter
    nreq,        \* GetUserTimeline calls issued by the process
    errAt,       \* number of the call that returned an error, 0 if none did
    lastKind,    \* the last answer: "none", "err", "empty" or "page"
    resp,        \* the answer being merged when log.Fatalf ended the process
    badSeen,     \* an answer held a tweet whose created_at does not parse
    badUnseen,   \* ... and whose id had not been seen in this invocation
    overlap,     \* an answer held an id that was cached when the process started
    merged,      \* tweets fetchMore appended in this process
    fresh,       \* tweets new to this process, in the order they were retrieved
    fetchErr,    \* the error mainImpl returns ("" for nil)
    stdout,      \* <<>> or the one report printed
    stderr,      \* log lines written and the failure lines among them
    exitCode     \* -1 while running, then the exit status

vars == <<file, fileAtStart, runs, prev, pc, flag, c, loaded, loads, saves, written, api,
          v, first, ids, i, nreq, errAt, lastKind, resp, badSeen, badUnseen, overlap,
          merged, fresh, fetchErr, stdout, stderr, exitCode>>

fetchVars == <<api, v, first, ids, i, nreq, errAt, lastKind, resp, badSeen, badUnseen,
               overlap, merged, fresh>>

\* flag.Parse(): -u, -v, -t, -s and the number of positional arguments.
\* (-k and -c only reach anaconda.SetConsumerKey / SetConsumerSecret.)
Flags ==
    [user : {""} \cup UserNames, verbose : BOOLEAN, token : {"", "T"},
     tokenSecret : {"", "S"}, nargs : {0, 1}]

NoFlags == [user |-> "", verbose |-> FALSE, token |-> "", tokenSecret |-> "", nargs |-> 0]
NoPrev ==
    [user |-> "", fetched |-> FALSE, hist |-> <<>>, lastKind |-> "none", errAt |-> 0,
     written |-> "none", exitCode |-> -1]
NoStderr == [log |-> 0, errs |-> <<>>]

\* Caches earlier runs of the program leave behind: for user "a" the newest
\* n tweets in the order the remote service lists them, and with all of
\* them also the oldest tweet for user "b".
Cached(tweet) == [CreatedAt |-> CreatedAtTime(tweet).t, Id |-> tweet.Id, Place |-> tweet.Place.Name]
NewestFirst(n) == [k \in 1..n |-> Cached(GoodTweet(MaxId + 1 - k))]
SeedCaches ==
    {IF n = 0 THEN EmptyCache ELSE SetHist(EmptyCache, "a", NewestFirst(n)) : n \in 0..MaxId}
    \cup {SetHist(SetHist(EmptyCache, "a", NewestFirst(MaxId)), "b", <<Cached(GoodTweet(1))>>)}

InitProcess ==
    /\ runs = 0
    /\ prev = NoPrev
    /\ pc = "idle"
    /\ flag = NoFlags
    /\ c = EmptyCache
    /\ loaded = EmptyCache
    /\ loads = 0
    /\ saves = 0
    /\ written = "none"
    /\ api = "none"
    /\ v = BaseValues
    /\ first = TRUE
    /\ ids = {}
    /\ i = 0
    /\ nreq = 0
    /\ errAt = 0
    /\ lastKind = "none"
    /\ resp = NoResponse
    /\ badSeen = FALSE
    /\ badUnseen = FALSE
    /\ overlap = FALSE
    /\ merged = <<>>
    /\ fresh = <<>>
    /\ fetchErr = ""
    /\ stdout = <<>>
    /\ stderr = NoStderr
    /\ exitCode = -1

\* One process against an API that may answer anything, started on a cache
\* file that is absent, damaged, without Users, mistyped, or left by earlier
\* runs.
Init ==
    /\ file \in {FileMissing, FileCorrupt, FileNoUsers, FileMistyped}
                \cup {FileJson(Marshal(seed)) : seed \in SeedCaches}
    /\ fileAtStart = file
    /\ InitProcess

\* log.Printf: n lines on stderr unless log.SetOutput(ioutil.Discard).
Logged(err, n) == IF flag.verbose THEN [err EXCEPT !.log = @ + n] ELSE err

\* main(): fmt.Fprintf(os.Stderr, "restroom: %s.\n", err)
Failed(err, msg) == [err EXCEPT !.errs = Append(@, msg)]

\* log.Fatalf: the line goes where log's output goes, then os.Exit(1).
FatalLine(err, msg) ==
    IF flag.verbose THEN [err EXCEPT !.log = @ + 1, !.errs = Append(@, msg)] ELSE err

\* main(): os.Exit(1) when mainImpl returned an error.
ExitStatusMut(err) == 0

ExitStatus(err) == IF err = "" THEN 0 ELSE 1

\* mainImpl: if len(*token) != 0 { fetchMore(...) }
WantsFetchMut(fl) == TRUE

WantsFetch(fl) == fl.token # ""

\* mainImpl up to the first GetUserTimeline call of fetchMore.
MainStart(fl) ==
    /\ pc = "idle"
    /\ flag' = fl
    /\ UNCHANGED <<file, fileAtStart, runs, prev, saves, written, v, first, ids, i, nreq,
                   errAt, lastKind, resp, badSeen, badUnseen, overlap, merged, fresh,
                   stdout>>
    /\ IF fl.nargs # 0 \/ fl.user = ""
       THEN /\ fetchErr' = IF fl.nargs # 0 THEN "unexpected argument" ELSE "-u is required"
            /\ stderr' = Failed(stderr, fetchErr')
            /\ exitCode' = ExitStatus(fetchErr')
            /\ pc' = "exited"
            /\ UNCHANGED <<c, loaded, loads, api>>
       ELSE /\ c' = Load(file)
            /\ loaded' = Load(file)
            /\ loads' = loads + 1
            /\ UNCHANGED <<stderr, exitCode>>
            /\ IF ~WantsFetch(fl)
               THEN /\ pc' = "finish"
                    /\ UNCHANGED <<api, fetchErr>>
               ELSE IF fl.tokenSecret = ""
               THEN /\ pc' = "finish"
                    /\ fetchErr' = "both -t and -s are required"
                    /\ UNCHANGED api
               ELSE /\ pc' = "loop"
                    /\ api' = "open"
                    /\ UNCHANGED fetchErr

\* The first tweet of the page whose created_at cannot be parsed and whose
\* id neither was seen before the page nor occurs earlier in it (0: none).
FirstBadUnseen(page, seen) ==
    LET bad == {k \in 1..Len(page) :
                    /\ ~page[k].CreatedAt.valid
                    /\ page[k].Id \notin seen
                    /\ \A j \in 1..(k - 1) : page[j].Id # page[k].Id}
    IN  IF bad = {} THEN 0 ELSE CHOOSE k \in bad : \A j \in bad : k <= j

IdsOf(h) == {h[k].Id : k \in 1..Len(h)}

\* The tweets of page[1..n] whose id is not in seen and not earlier in the
\* page, as cache entries, in page order.
RECURSIVE FreshUpTo(_, _, _)
FreshUpTo(page, seen, n) ==
    IF n = 0 THEN <<>>
    ELSE LET before == FreshUpTo(page, seen, n - 1)
         IN  IF page[n].Id \notin seen /\ \A j \in 1..(n - 1) : page[j].Id # page[n].Id
             THEN Append(before, Cached(page[n]))
             ELSE before

\* The tweets of an answer that are new to this invocation, in the order the
\* answer lists them, up to the first one whose created_at cannot be parsed.
Retrieved(r, before) ==
    LET k == FirstBadUnseen(r.timeline, IdsOf(before))
    IN  FreshUpTo(r.timeline, IdsOf(before), IF k = 0 THEN Len(r.timeline) ELSE k - 1)

\* One iteration of the loop: the cursor, the GetUserTimeline call and its
\* answer r, the error and empty-page tests, the merge, i++ and the loop
\* test; the deferred api.Close() runs when fetchMore returns.
Iteration(r) ==
    LET h == Hist(c, flag.user)
        asked == Logged(stderr, IF Len(h) # 0 THEN 3 ELSE 2)
    IN
    /\ pc = "loop"
    /\ i < MaxRequests
    /\ v' = WithMaxId(v, h)
    /\ nreq' = nreq + 1
    /\ errAt' = IF r.err THEN nreq + 1 ELSE errAt
    /\ lastKind' = IF r.err THEN "err" ELSE IF Len(r.timeline) = 0 THEN "empty" ELSE "page"
    /\ badSeen' = (badSeen \/ \E k \in 1..Len(r.timeline) : ~r.timeline[k].CreatedAt.valid)
    /\ badUnseen' = (FirstBadUnseen(r.timeline, ids) # 0)
    /\ overlap' = (overlap \/ IdsOf(r.timeline) \cap IdsOf(Hist(loaded, flag.user)) # {})
    /\ fresh' = fresh \o Retrieved(r, fresh)
    /\ UNCHANGED <<file, fileAtStart, runs, prev, flag, loaded, loads, saves, written, stdout>>
    /\ IF ReturnsError(r.err, first)
       THEN /\ fetchErr' = "api error"
            /\ api' = "closed"
            /\ pc' = "finish"
            /\ stderr' = asked
            /\ UNCHANGED <<c, first, ids, i, merged, resp, exitCode>>
       ELSE IF Breaks(r.timeline, r.err)
       THEN /\ api' = "closed"
            /\ pc' = "finish"
            /\ stderr' = asked
            /\ UNCHANGED <<c, first, ids, i, merged, resp, fetchErr, exitCode>>
       ELSE LET m == MergePage(h, ids, r.timeline)
            IN  /\ first' = FALSE
                /\ ids' = m.ids
                /\ c' = IF m.hist = h THEN c ELSE SetHist(c, flag.user, m.hist)
                /\ merged' = merged \o SubSeq(m.hist, Len(h) + 1, Len(m.hist))
                /\ UNCHANGED fetchErr
                /\ IF m.fatal
                   THEN /\ stderr' = FatalLine(asked, "time")
                        /\ exitCode' = 1
                        /\ resp' = r
                        /\ pc' = "exited"
                        /\ UNCHANGED <<api, i>>
                   ELSE /\ stderr' = asked
                        /\ i' = i + 1
                        /\ UNCHANGED <<exitCode, resp>>
                        /\ IF i + 1 < MaxRequests
                           THEN /\ pc' = "loop"
                                /\ UNCHANGED api
                           ELSE /\ pc' = "finish"
                                /\ api' = "closed"

\* mainImpl after fetchMore: the report unless fetchMore failed, the
\* deferred c.save(), and main()'s exit.
Finish(w) ==
    /\ pc = "finish"
    /\ stdout' = IF fetchErr = "" THEN <<Report(Hist(c, flag.user))>> ELSE stdout
    /\ saves' = saves + 1
    /\ written' = w
    /\ file' = WriteFile(file, Marshal(c), w)
    /\ stderr' = IF fetchErr = "" THEN stderr ELSE Failed(stderr, fetchErr)
    /\ exitCode' = ExitStatus(fetchErr)
    /\ pc' = "exited"
    /\ UNCHANGED <<fileAtStart, runs, prev, flag, c, loaded, loads, fetchErr>>
    /\ UNCHANGED fetchVars

Next ==
    \/ \E fl \in Flags : MainStart(fl)
    \/ \E r \in Responses : Iteration(r)
    \/ \E w \in WriteOutcomes : Finish(w)

Spec == Init /\ [][Next]_vars

\* ------------------------------------- successive runs, faithful remote API
\* The next invocation of the program: a fresh process on the same file.
NextProcess ==
    /\ pc = "exited"
    /\ runs + 1 < MaxRuns
    /\ runs' = runs + 1
    /\ prev' = [user |-> flag.user, fetched |-> nreq > 0, hist |-> Hist(c, flag.user),
                lastKind |-> lastKind, errAt |-> errAt, written |-> written,
                exitCode |-> exitCode]
    /\ fileAtStart' = file
    /\ pc' = "idle"
    /\ flag' = NoFlags
    /\ c' = EmptyCache
    /\ loaded' = EmptyCache
    /\ loads' = 0
    /\ saves' = 0
    /\ written' = "none"
    /\ api' = "none"
    /\ v' = BaseValues
    /\ first' = TRUE
    /\ ids' = {}
    /\ i' = 0
    /\ nreq' = 0
    /\ errAt' = 0
    /\ lastKind' = "none"
    /\ resp' = NoResponse
    /\ badSeen' = FALSE
    /\ badUnseen' = FALSE
    /\ overlap' = FALSE
    /\ merged' = <<>>
    /\ fresh' = <<>>
    /\ fetchErr' = ""
    /\ stdout' = <<>>
    /\ stderr' = NoStderr
    /\ exitCode' = -1
    /\ UNCHANGED file

\* The remote service answers the request the loop sends, or fails.
FaithfulResponses ==
    {ApiError,
     [err |-> FALSE, timeline |-> Serve(flag.user, WithMaxId(v, Hist(c, flag.user)))]}

InitFaithful ==
    /\ file \in {FileMissing, FileCorrupt, FileNoUsers}
    /\ fileAtStart = file
    /\ InitProcess

NextFaithful ==
    \/ \E fl \in Flags : MainStart(fl)
    \/ pc = "loop" /\ \E r \in FaithfulResponses : Iteration(r)
    \/ \E w \in WriteOutcomes : Finish(w)
    \/ NextProcess

SpecFaithful == InitFaithful /\ [][NextFaithful]_vars

\* --------------------------------------------- a remote API that keeps order
\* An answer to the request with parameters values: an error, or a page
\* listing tweets newest first, none newer than max_id when it is given.
WellOrdered(r, values) ==
    \/ r.err
    \/ /\ \A k \in 1..(Len(r.timeline) - 1) : r.timeline[k].Id > r.timeline[k + 1].Id
       /\ values.max_id # <<>>
          => \A k \in 1..Len(r.timeline) : r.timeline[k].Id <= ParseInt(values.max_id[1])

NextOrdered ==
    \/ \E fl \in Flags : MainStart(fl)
    \/ /\ pc = "loop"
       /\ \E r \in Responses :
             WellOrdered(r, WithMaxId(v, Hist(c, flag.user))) /\ Iteration(r)
    \/ \E w \in WriteOutcomes : Finish(w)

\* Every cache file of Init holds histories in strictly decreasing id order.
SpecOrdered == Init /\ [][NextOrdered]_vars

\* ----------------------------------------------------------------- claims
NoDup(h) == \A j, k \in 1..Len(h) : j # k => h[j].Id # h[k].Id

\* C1 (as claimed): whatever pages the remote API returns, no two tweets of
\* one user's history share an id.
C1_NoDuplicateIds == \A u \in DOMAIN c.Users : NoDup(c.Users[u])

\* C1 (amended): the tweets one fetchMore invocation appends have pairwise
\* different ids; the ids cached before the invocation are not looked at, so
\* a history that was free of duplicates stays so when no answer holds an id
\* that was already cached.
C1_DedupWithinRun ==
    /\ NoDup(merged)
    /\ (NoDup(Hist(loaded, flag.user)) /\ ~overlap) => NoDup(Hist(c, flag.user))

\* Two non-empty pages of well-formed tweets arrived and one tweet was
\* appended: the second page repeated the id of the first.
C1_Witness ==
    /\ pc = "loop"
    /\ nreq >= 2
    /\ ~badSeen
    /\ ~overlap
    /\ Len(merged) = 1
    /\ Len(Hist(loaded, flag.user)) > 0

\* C2: one fetchMore invocation issues at most 10 GetUserTimeline calls,
\* whatever the remote API answers.
C2_BoundedRequests == nreq <= 10

\* The tenth call was made and the process went on to its exit.
C2_Witness == nreq = 10 /\ pc = "exited" /\ exitCode = 0

\* C3: every page request carries max_id = (id of the last cached tweet) - 1
\* when the user's history is non-empty at that moment, and no max_id when
\* it is empty.
C3_CursorCorrect ==
    [][(pc = "loop" /\ nreq' = nreq + 1) =>
        LET h == Hist(c, flag.user)
        IN  v'.max_id = IF Len(h) > 0 THEN <<FormatInt(h[Len(h)].Id - 1)>> ELSE <<>>]_vars

\* A run that started on an empty history sent a first request without
\* max_id and a later one with it.
C3_Witness ==
    /\ nreq >= 2
    /\ Hist(loaded, flag.user) = <<>>
    /\ v.max_id # <<>>

\* C4 (as claimed): two successive fetch runs for the same user against an
\* unchanged remote timeline, neither meeting an error: the history after
\* the second run is the history after the first.
C4_RefetchIdempotent ==
    (/\ pc = "exited" /\ exitCode = 0 /\ nreq > 0 /\ errAt = 0
     /\ prev.user = flag.user /\ prev.fetched /\ prev.exitCode = 0
     /\ prev.errAt = 0 /\ prev.written = "ok")
    => (Hist(c, flag.user) = prev.hist /\ NoDup(Hist(c, flag.user)))

\* C4 (amended): when the first run ended on an empty page - it walked the
\* remote timeline to its end - and saved the cache, a second run for the
\* same user leaves the history as the first run left it, free of duplicates.
C4_RefetchAfterEnd ==
    (/\ loads > 0 /\ prev.user = flag.user /\ prev.fetched
     /\ prev.lastKind = "empty" /\ prev.written = "ok")
    => (Hist(c, flag.user) = prev.hist /\ NoDup(Hist(c, flag.user)))

\* The second of two complete fetch runs for one user has ended.
C4_Witness ==
    /\ pc = "exited" /\ exitCode = 0 /\ nreq > 0 /\ errAt = 0
    /\ prev.user = flag.user /\ prev.fetched
    /\ prev.lastKind = "empty" /\ prev.written = "ok"
    /\ Len(prev.hist) = ShortLen

\* Every tweet of list a occurs in h.
AllIn(a, h) == \A k \in 1..Len(a) : \E j \in 1..Len(h) : h[j] = a[k]

\* C5: when request number k >= 2 of a run fails, fetchMore returns no
\* error, the process prints its report and exits 0, and save() is handed a
\* cache holding every tweet merged from requests 1..k-1, which is what the
\* cache file holds once the write of save() has succeeded.
C5_PartialFailureDurable ==
    (pc = "exited" /\ errAt >= 2)
    => /\ fetchErr = ""
       /\ exitCode = 0
       /\ stdout # <<>>
       /\ saves = 1
       /\ AllIn(merged, Hist(c, flag.user))
       /\ written = "ok" =>
            (file.kind = "json" /\ AllIn(merged, Hist(Load(file), flag.user)))

\* Request 4 failed after two tweets had been merged, and the cache was saved.
C5_Witness ==
    /\ pc = "exited"
    /\ errAt = 4
    /\ Len(merged) = 2
    /\ written = "ok"

\* C6: when the first request of a run fails, fetchMore returns the error,
\* the in-memory cache is the cache as loaded, save() writes that cache and
\* the process exits non-zero without a report.
C6_FirstFailurePure ==
    (errAt = 1 /\ pc \in {"finish", "exited"})
    => /\ fetchErr # ""
       /\ c = loaded
       /\ merged = <<>>
       /\ pc = "exited" =>
            /\ saves = 1
            /\ exitCode # 0
            /\ stdout = <<>>
            /\ written = "ok" => (file = FileJson(Marshal(loaded)) /\ Load(file) = loaded)

\* The first request failed on a non-empty cache, which was then written.
C6_Witness ==
    /\ pc = "exited"
    /\ errAt = 1
    /\ Hist(loaded, flag.user) # <<>>
    /\ written = "ok"

\* C7 (as claimed): a process that merged tweets into the cache runs save()
\* exactly once before it exits, on every exit path, and a successful write
\* leaves the merged tweets in the cache file.
C7_MergedIsSaved ==
    (pc = "exited" /\ merged # <<>>)
    => /\ saves = 1
       /\ written = "ok" => AllIn(merged, Hist(Load(file), flag.user))

\* -u is missing, there are positional arguments, or exactly one of -t and
\* -s is given.
ConfigError(fl) ==
    \/ fl.nargs # 0
    \/ fl.user = ""
    \/ (fl.token = "") # (fl.tokenSecret = "")

\* C8 (as claimed): a configuration error is detected before any I/O: the
\* cache file is neither read nor written, no request is sent, the process
\* exits non-zero.
C8_ConfigErrorsBeforeIO ==
    (pc = "exited" /\ ConfigError(flag))
    => /\ loads = 0
       /\ saves = 0
       /\ nreq = 0
       /\ file = fileAtStart
       /\ exitCode # 0

\* C9 (as claimed): a fetched page holding a tweet whose timestamp cannot be
\* parsed aborts the run: the process has exited without reporting success.
C9_AnyBadTimestampAborts ==
    badSeen => (pc = "exited" /\ exitCode # 0 /\ stdout = <<>>)

\* C9 (amended): when the timestamp of a tweet whose id has not been seen in
\* this invocation cannot be parsed, the run aborts at once: exactly the
\* unseen tweets before it in the page are appended, neither it nor a later
\* tweet of the page is, the process exits non-zero without a report, and
\* no request follows.  (A tweet whose id was already seen is skipped before
\* its timestamp is parsed.)
C9_UnseenBadTimestampAborts ==
    [][/\ (pc = "loop" /\ badUnseen') =>
            LET h == Hist(c, flag.user)
                page == resp'.timeline
                k == FirstBadUnseen(page, ids)
            IN  /\ k > 0
                /\ Hist(c', flag.user) = h \o FreshUpTo(page, ids, k - 1)
                /\ page[k].Id \notin IdsOf(merged')
                /\ pc' = "exited"
                /\ exitCode' = 1
                /\ stdout' = <<>>
       /\ badUnseen => (nreq' = nreq /\ c' = c /\ stdout' = stdout)]_vars

\* The page <<tweet 1 with a malformed time, tweet 2>> ended the process and
\* tweet 2 was not appended.
C9_Witness ==
    /\ badUnseen
    /\ pc = "exited"
    /\ resp.timeline = <<BadTweet(1), GoodTweet(2)>>
    /\ 2 \notin IdsOf(Hist(c, flag.user))

\* A run that ends in one of the failures the claim lists.
FailedRun ==
    \/ ConfigError(flag)
    \/ errAt = 1
    \/ badUnseen
    \/ written \in {"openfail", "short"}

\* C10 (as claimed): a run that ends in a failure writes exactly one line
\* naming the failure on stderr and exits non-zero, with or without -v; every
\* other run prints the report and exits 0.
C10_ExitReporting ==
    pc = "exited" =>
        IF FailedRun
        THEN Len(stderr.errs) = 1 /\ exitCode # 0
        ELSE stdout # <<>> /\ exitCode = 0

\* C11 (as claimed): when the cache file cannot be written, the failure is
\* reported on stderr and the process exits non-zero.
C11_SaveFailureReported ==
    (pc = "exited" /\ written \in {"openfail", "short"})
    => (exitCode # 0 /\ Len(stderr.errs) >= 1)

\* C12 (as claimed): load never stops the process, and a cache file that
\* is missing or whose content is malformed loads as the empty cache: a
\* Users mapping that exists and holds no user and no post.
C12_MalformedLoadsEmpty ==
    (loads > 0 /\ fileAtStart.kind \in {"missing", "corrupt", "mistyped"})
    => loaded = EmptyCache

\* C13: a run given no access token sends no page request and creates no
\* API client, prints the report of the history it loaded, and saves once
\* the cache it loaded: a successful write leaves a file that loads as the
\* same cache.
C13_ReportOnly ==
    (loads > 0 /\ flag.token = "")
    => /\ nreq = 0
       /\ api = "none"
       /\ c = loaded
       /\ pc = "exited"
          => /\ stdout = <<Report(Hist(loaded, flag.user))>>
             /\ exitCode = 0
             /\ saves = 1
             /\ written = "ok" => Load(file) = loaded

C13_Witness ==
    /\ pc = "exited"
    /\ flag.token = ""
    /\ flag.tokenSecret = ""
    /\ written = "ok"
    /\ Len(Hist(loaded, flag.user)) >= 2
    /\ stdout # <<>>

RECURSIVE SumTo(_, _)
SumTo(f, n) == IF n < 0 THEN 0 ELSE f[n] + SumTo(f, n - 1)

Positions(h, Test(_)) == {k \in 1..Len(h) : Test(h[k])}

\* The counters of report rep are the counts of history h.
CountsOf(rep, h) ==
    /\ rep.processed = Len(h)
    /\ \A x \in 0..23 :
          LET AtHour(t) == t.CreatedAt.hour = x
          IN  rep.hours[x] = Cardinality(Positions(h, AtHour))
    /\ \A d \in 0..6 :
          LET OnDay(t) == (t.CreatedAt.day + 4) % 7 = d
          IN  rep.weekdays[d] = Cardinality(Positions(h, OnDay))
    /\ DOMAIN rep.placesMap = {h[k].Place : k \in 1..Len(h)} \ {""}
    /\ \A p \in DOMAIN rep.placesMap :
          LET AtPlace(t) == t.Place = p
          IN  rep.placesMap[p] = Cardinality(Positions(h, AtPlace))
    /\ SumTo(rep.hours, 23) = Len(h)
    /\ SumTo(rep.weekdays, 6) = Len(h)

C16_StopConditions ==
    [][/\ (/\ pc = "loop"
           /\ nreq' = nreq + 1
           /\ lastKind' = "empty" \/ (lastKind' = "err" /\ nreq >= 1))
          => /\ pc' = "finish"
             /\ fetchErr' = ""
             /\ c' = c
             /\ merged' = merged
       /\ (/\ pc = "finish"
           /\ lastKind = "empty" \/ (lastKind = "err" /\ errAt >= 2))
          => /\ nreq' = nreq
             /\ c' = c
             /\ merged' = merged
             /\ stdout' # <<>>
             /\ exitCode' = 0]_vars

C16_Witness ==
    /\ pc = "exited"
    /\ lastKind = "err"
    /\ errAt >= 2
    /\ nreq = errAt
    /\ merged # <<>>
    /\ exitCode = 0

\* C17: fetchMore only appends: at every point of the invocation and on
\* every way out of it, the user's history is the history loaded followed by
\* the tweets retrieved that were new, in the order they were retrieved; no
\* cached post is removed, moved or rewritten.
C17_AppendOnly ==
    loads > 0
    => LET before == Hist(loaded, flag.user)
           after == Hist(c, flag.user)
       IN  /\ Len(before) <= Len(after)
           /\ SubSeq(after, 1, Len(before)) = before
           /\ SubSeq(after, Len(before) + 1, Len(after)) = fresh

C17_Witness ==
    /\ pc = "exited"
    /\ Len(Hist(loaded, flag.user)) >= 1
    /\ Len(fresh) >= 2
    /\ nreq >= 2
    /\ fresh[1].Id # fresh[2].Id

\* C18 (as claimed): the API client fetchMore creates is closed on every
\* way out (normal completion, the ceiling, the first-page error return, a
\* later error or an empty page, the abort on an unparsable timestamp), and
\* without token or secret no client is created.
C18_ClientReleased ==
    pc = "exited"
    => IF loads > 0 /\ flag.token # "" /\ flag.tokenSecret # ""
       THEN api = "closed"
       ELSE api = "none"

Decreasing(h) == \A k \in 1..(Len(h) - 1) : h[k].Id > h[k + 1].Id

\* C19: started on histories in strictly decreasing id order and answered
\* only by pages that list tweets newest first and none newer than the
\* max_id asked for, fetchMore keeps every history strictly decreasing; the
\* post appended last has the smallest id, and each request of a run asks
\* for a max_id strictly below that of the request before it.
C19_OrderKept ==
    [][/\ \A u \in UserNames : Decreasing(Hist(c', u))
       /\ LET h == Hist(c', flag'.user)
          IN  \A k \in 1..Len(h) : h[Len(h)].Id <= h[k].Id
       /\ (pc = "loop" /\ nreq' = nreq + 1 /\ v.max_id # <<>>)
          => /\ v'.max_id # <<>>
             /\ ParseInt(v'.max_id[1]) < ParseInt(v.max_id[1])]_vars

C19_Witness ==
    /\ pc = "exited"
    /\ nreq >= 3
    /\ Len(fresh) >= 2
    /\ Hist(c, flag.user) = fresh
    /\ v.max_id # <<>>

\* C20: fetchMore for one user leaves every other user as loaded, at every
\* point and on every way out: a user with an entry keeps it with the same
\* history, and a user without an entry gets none.
C20_OtherUsersUntouched ==
    loads > 0
    => \A u \in UserNames \ {flag.user} :
          /\ u \in DOMAIN c.Users <=> u \in DOMAIN loaded.Users
          /\ Hist(c, u) = Hist(loaded, u)

C20_Witness ==
    /\ pc = "exited"
    /\ fresh # <<>>
    /\ \E u \in UserNames \ {flag.user} :
          u \in DOMAIN loaded.Users /\ Len(Hist(c, u)) >= 1

====
